---- MODULE Spec2Model ----
(***************************************************************************)
(* CancellableMonitoredSemaphore                                           *)
(* (src/src/async_utils/cancellable_semaphore.py) on an asyncio event      *)
(* loop.                                                                   *)
(*                                                                         *)
(* The loop is single threaded and the asyncio.Lock is never held across   *)
(* an await, so it is never contended and `async with self._lock` never    *)
(* suspends: the code between two suspension points runs as one step.      *)
(* The only suspension point of the class is `await waiter` in acquire.    *)
(* release() only schedules the _release_async task; a future that         *)
(* completes schedules the wake-up of the task awaiting it.  Both go to    *)
(* the tail of the loop's ready queue, which the loop runs in FIFO order.  *)
(*                                                                         *)
(* With an update_url the constructor starts a thread that runs            *)
(* _update_loop_thread: it sleeps in one-second slices, fetches a limit    *)
(* and submits update_limit to the event loop, waiting for it a bounded    *)
(* time.  The thread's blocking calls (time.sleep, requests.get,           *)
(* future.result) are where the event loop's steps interleave with it.     *)
(***************************************************************************)
EXTENDS Integers, Sequences, FiniteSets, TLC

\* ---- bounds -------------------------------------------------------------
NumCallers == 3
MaxLimit == 3
MaxReady == 2
\* update_interval, in seconds
Interval == 2
\* the asyncio.Semaphore objects a MonitoredSemaphore gets to create
MaxSemaphores == 3
\* the callers that use the semaphore in the runs with the update thread
CtlCallers == 1

Callers == 1..NumCallers
Limits == 1..MaxLimit
\* the arguments update_limit is called with
LimitArgs == -1..MaxLimit

\* The histories are observers: no guard and no program variable depends on
\* them.  A run records one of them, so that each costs states only where a
\* property reads it.
Histories == {"none", "order", "update", "resize", "trip", "error"}

VARIABLES
    max_value,      \* self._max_value
    active_count,   \* self._active_count
    available,      \* self._available
    waiters,        \* self._waiters: deque of futures, named by their caller
    fut,            \* state of the asyncio.Future of each caller's acquire
    task,           \* where each caller's task stands
    must_cancel,    \* Task._must_cancel: cancel() arrived after the future was done
    ready,          \* the event loop's FIFO queue of scheduled handles
    track,          \* which of the histories below this run records (fixed by Init)
    order,          \* history: callers in enqueue order, until their acquire ends
    lastUpdate,     \* history: <<x, k>>, the last k (capped at 2) operations were update_limit(x);
                    \* when track is "resize": the last operation was an update_limit
                    \* that changed the limit to x and cancelled k pending waiters
    lastResize,     \* history: <<direction, sign of new_limit - active>> of the last
                    \* update_limit that changed the limit
    trip,           \* history: <<stage, caller, counters before>> of an acquire that
                    \* returned at once (1), was released next (2), whose
                    \* _release_async ran next (3)
    lastError,      \* history: <<new_limit, outcome>> of an update_limit(new_limit <= 0)
                    \* that was the last operation
    thread,         \* where _update_loop_thread stands ("none": no update_url, no thread)
    slice,          \* the one-second slices slept in the current interval
    stop_event,     \* self._stop_event.is_set()
    loop,           \* self._loop is not None (only the thread reads it: recorded
                    \* only when there is one)
    new_limit,      \* the thread's new_limit while it waits for update_limit(new_limit)
                    \* (None otherwise: it is assigned again before it is read)
    cfut,           \* the concurrent future the thread waits on
    last_successful_value,  \* self._last_successful_value (written by the thread,
                    \* read by nothing: recorded with the history of its fetches)
    payload,        \* history: what the last requests.get of the thread returned
    used,           \* history: some caller has called acquire
    \* MonitoredSemaphore (src/src/async_utils/semaphore_monitor.py)
    m_max_value,    \* self._max_value (0: no MonitoredSemaphore in this run)
    m_active_count, \* self._active_count
    m_semaphores,   \* self._old_semaphores followed by self._semaphore: of each
                    \* asyncio.Semaphore its _value and its _waiters
    m_task,         \* where each caller's task stands
    m_ready,        \* the callers whose wake-up the loop has scheduled, in order
    m_lastError,    \* history: <<new_limit, outcome>> of an update_limit(new_limit <= 0)
    m_pre           \* history (track "resize"): the callers that were inside, or
                    \* entering, at the last update_limit that changed the limit
                    \* and have not exited since
                    \* that was the last operation

semvars == <<max_value, active_count, available, waiters, fut, ready>>
cvars == <<max_value, active_count, available, waiters, fut, task, must_cancel,
           ready, track, order, lastUpdate, lastResize, trip, lastError,
           thread, slice, stop_event, loop, new_limit, cfut, last_successful_value,
           payload, used>>

\* the MonitoredSemaphore
mvars == <<m_max_value, m_active_count, m_semaphores, m_task, m_ready, m_lastError,
          m_pre>>

vars == <<cvars, mvars>>

\* the update thread and what it shares with the event loop
ctlvars == <<thread, slice, stop_event, loop, new_limit, cfut, last_successful_value,
             payload, used>>

\* ---- helpers ------------------------------------------------------------
Min(a, b) == IF a < b THEN a ELSE b
Max(a, b) == IF a > b THEN a ELSE b

ReleaseTask == [kind |-> "release", who |-> 0]
WakeUp(c) == [kind |-> "wake", who |-> c]

Remove_All(s, x) == <<>>

\* deque.remove(x): drop the first occurrence of x; ValueError (ignored) if absent
Remove(s, x) == SelectSeq(s, LAMBDA y : y # x)

Done_Never(f, w) == FALSE

\* waiter.done()
Done(f, w) == f[w] # "pending"

Card(S) == Cardinality(S)

NoTrip == <<0, 0, <<>>>>
NoError == <<0, "none">>
NoPayload == <<"none", "none", 0>>

\* Python's None as a limit (a limit is a positive integer)
None == 0

TypeOK ==
    /\ max_value \in Limits
    /\ active_count \in Int
    /\ available \in Int
    /\ fut \in [Callers -> {"none", "pending", "result", "cancelled"}]
    /\ task \in [Callers -> {"idle", "waiting", "holding"}]
    /\ must_cancel \in [Callers -> BOOLEAN]
    /\ track \in Histories \cup {"fetch"}
    /\ \A i \in 1..Len(waiters) : waiters[i] \in Callers
    /\ Len(ready) <= MaxReady + 2 * NumCallers
    /\ thread \in {"none", "while", "for", "sleep", "fetch", "wait", "done"}
    /\ slice \in 0..Interval
    /\ stop_event \in BOOLEAN
    /\ loop \in BOOLEAN
    /\ new_limit \in {None} \cup Limits
    /\ cfut \in {"none", "pending", "result", "exception"}
    /\ last_successful_value \in {None} \cup Limits
    /\ used \in BOOLEAN

\* ---- construction -------------------------------------------------------
\* the fields of the update thread as __init__ leaves them; started tells
\* whether update_url was given, that is, whether the thread was started
InitThread(started) ==
    /\ thread = IF started THEN "while" ELSE "none"
    /\ slice = 0
    /\ stop_event = FALSE
    /\ loop = FALSE
    /\ new_limit = None
    /\ cfut = "none"
    /\ last_successful_value = IF started /\ track = "fetch" THEN max_value ELSE None
    /\ payload = NoPayload
    /\ used = FALSE

\* __init__(value): no permit taken, nothing queued
InitSemaphore ==
    /\ max_value \in Limits
    /\ active_count = 0
    /\ available = max_value
    /\ waiters = <<>>
    /\ fut = [c \in Callers |-> "none"]
    /\ task = [c \in Callers |-> "idle"]
    /\ must_cancel = [c \in Callers |-> FALSE]
    /\ ready = <<>>
    /\ order = <<>>
    /\ lastUpdate = <<0, 0>>
    /\ lastResize = <<"none", 0>>
    /\ trip = NoTrip
    /\ lastError = NoError

\* no MonitoredSemaphore is constructed
NoMonitored ==
    /\ m_max_value = 0
    /\ m_active_count = 0
    /\ m_semaphores = <<>>
    /\ m_task = [c \in Callers |-> "idle"]
    /\ m_ready = <<>>
    /\ m_lastError = NoError
    /\ m_pre = {}

\* __init__(value) without update_url
Init ==
    /\ InitSemaphore
    /\ track \in Histories
    /\ InitThread(FALSE)
    /\ NoMonitored

\* ---- status -------------------------------------------------------------
\* the available_permits property of CancellableMonitoredSemaphore
available_permits == available

\* the available_permits property of MonitoredSemaphore
m_available_permits == m_max_value - m_active_count

\* ---- acquire ------------------------------------------------------------
HasPermit_Always(av) == TRUE

\* `if self._available > 0`
HasPermit(av) == av > 0

\* how a caller gets to acquire(): by calling it, or through `async with` /
\* acquire_monitored, which first capture the running loop in self._loop
Paths == {"acquire", "context"}

\* the callers that use the semaphore
Participants == IF thread = "none" THEN Callers ELSE 1..CtlCallers

\* acquire(), up to its return (fast path) or its suspension at `await waiter`
Acquire(c) ==
    /\ task[c] = "idle"
    /\ c \in Participants
    /\ \E path \in Paths :
          loop' = IF thread # "none" /\ path = "context" THEN TRUE ELSE loop
    /\ used' = IF track = "fetch" THEN TRUE ELSE used
    /\ IF HasPermit(available)
       THEN /\ available' = available - 1
            /\ active_count' = active_count + 1
            /\ task' = [task EXCEPT ![c] = "holding"]
            /\ UNCHANGED <<waiters, fut, order>>
       ELSE /\ fut' = [fut EXCEPT ![c] = "pending"]
            /\ waiters' = Append(waiters, c)
            /\ task' = [task EXCEPT ![c] = "waiting"]
            /\ order' = IF track = "order" THEN Append(order, c) ELSE order
            /\ UNCHANGED <<available, active_count>>
    /\ trip' = IF track = "trip" /\ task'[c] = "holding" /\ ready = <<>>
               THEN <<1, c, <<active_count, available, max_value, waiters>>>>
               ELSE NoTrip
    /\ lastUpdate' = <<0, 0>>
    /\ lastError' = NoError
    /\ UNCHANGED <<max_value, must_cancel, ready, lastResize, track>>
    /\ UNCHANGED <<thread, slice, stop_event, new_limit, cfut, last_successful_value, payload>>
    /\ UNCHANGED mvars

\* Task.cancel() on a caller suspended in acquire: a pending future is
\* cancelled (which schedules the wake-up); if the future already has its
\* result the wake-up is already scheduled and the task is only marked
\* _must_cancel.  On a task whose future is already cancelled it changes
\* nothing the task can see (the wake-up raises CancelledError either way).
Cancel(c) ==
    /\ task[c] = "waiting"
    /\ ~must_cancel[c]
    /\ fut[c] \in {"pending", "result"}
    /\ IF fut[c] = "pending"
       THEN /\ fut' = [fut EXCEPT ![c] = "cancelled"]
            /\ ready' = Append(ready, WakeUp(c))
            /\ UNCHANGED must_cancel
       ELSE /\ must_cancel' = [must_cancel EXCEPT ![c] = TRUE]
            /\ UNCHANGED <<fut, ready>>
    /\ lastUpdate' = <<0, 0>>
    /\ trip' = NoTrip
    /\ lastError' = NoError
    /\ UNCHANGED <<max_value, active_count, available, waiters, task, order, lastResize, track>>
    /\ UNCHANGED ctlvars
    /\ UNCHANGED mvars

\* the task of caller c resumes from `await waiter`
RunWake(c) ==
    /\ ready # <<>>
    /\ Head(ready) = WakeUp(c)
    /\ ready' = Tail(ready)
    /\ IF fut[c] = "cancelled" \/ must_cancel[c]
       THEN \* except asyncio.CancelledError: remove the waiter if still there, raise
            /\ waiters' = Remove(waiters, c)
            /\ task' = [task EXCEPT ![c] = "idle"]
            /\ UNCHANGED active_count
       ELSE /\ active_count' = active_count + 1
            /\ task' = [task EXCEPT ![c] = "holding"]
            /\ UNCHANGED waiters
    /\ fut' = [fut EXCEPT ![c] = "none"]
    /\ must_cancel' = [must_cancel EXCEPT ![c] = FALSE]
    /\ order' = Remove(order, c)
    /\ lastUpdate' = <<0, 0>>
    /\ trip' = NoTrip
    /\ lastError' = NoError
    /\ UNCHANGED <<max_value, available, lastResize, track>>
    /\ UNCHANGED ctlvars
    /\ UNCHANGED mvars

\* ---- release ------------------------------------------------------------
\* release(): asyncio.create_task(self._release_async())
Release(c) ==
    /\ task[c] = "holding"
    /\ Len(ready) < MaxReady
    /\ task' = [task EXCEPT ![c] = "idle"]
    /\ ready' = Append(ready, ReleaseTask)
    /\ trip' = IF trip[1] = 1 /\ trip[2] = c THEN <<2, c, trip[3]>> ELSE NoTrip
    /\ lastUpdate' = <<0, 0>>
    /\ lastError' = NoError
    /\ UNCHANGED <<max_value, active_count, available, waiters, fut, must_cancel,
                   order, lastResize, track>>
    /\ UNCHANGED ctlvars
    /\ UNCHANGED mvars

\* the loop taking from the tail of the deque instead of its head
RECURSIVE PopToLive_Tail(_, _)
PopToLive_Tail(ws, f) ==
    IF ws = <<>> THEN [woken |-> 0, rest |-> <<>>]
    ELSE IF ~Done(f, ws[Len(ws)])
         THEN [woken |-> ws[Len(ws)], rest |-> SubSeq(ws, 1, Len(ws) - 1)]
    ELSE PopToLive_Tail(SubSeq(ws, 1, Len(ws) - 1), f)

\* `while self._waiters: waiter = popleft(); if not waiter.done(): ...`:
\* the waiters left once the loop stops, and the waiter it stopped at (0: none)
RECURSIVE PopToLive(_, _)
PopToLive(ws, f) ==
    IF ws = <<>> THEN [woken |-> 0, rest |-> <<>>]
    ELSE IF ~Done(f, Head(ws)) THEN [woken |-> Head(ws), rest |-> Tail(ws)]
    ELSE PopToLive(Tail(ws), f)

\* the _release_async task runs
RunRelease ==
    /\ ready # <<>>
    /\ Head(ready) = ReleaseTask
    /\ active_count' = active_count - 1
    /\ LET r == PopToLive(waiters, fut) IN
         /\ waiters' = r.rest
         /\ IF r.woken # 0
            THEN /\ fut' = [fut EXCEPT ![r.woken] = "result"]
                 /\ ready' = Append(Tail(ready), WakeUp(r.woken))
                 /\ UNCHANGED available
            ELSE /\ available' = available + 1
                 /\ ready' = Tail(ready)
                 /\ UNCHANGED fut
    /\ trip' = IF trip[1] = 2 THEN <<3, trip[2], trip[3]>> ELSE NoTrip
    /\ lastUpdate' = <<0, 0>>
    /\ lastError' = NoError
    /\ UNCHANGED <<max_value, task, must_cancel, order, lastResize, track>>
    /\ UNCHANGED ctlvars
    /\ UNCHANGED mvars

\* ---- update_limit -------------------------------------------------------
\* `for _ in range(to_wake): if self._waiters: waiter = popleft();
\*      if not waiter.done(): waiter.set_result(None); self._available -= 1`
RECURSIVE WakeLoop(_, _, _, _, _)
WakeLoop(k, ws, f, av, rdy) ==
    IF k = 0 \/ ws = <<>>
    THEN [waiters |-> ws, fut |-> f, available |-> av, ready |-> rdy]
    ELSE LET w == Head(ws) IN
         IF ~Done(f, w)
         THEN WakeLoop(k - 1, Tail(ws), [f EXCEPT ![w] = "result"], av - 1,
                       Append(rdy, WakeUp(w)))
         ELSE WakeLoop(k - 1, Tail(ws), f, av, rdy)

\* `while len(self._waiters) > allowed_waiting: waiter = pop();
\*      if not waiter.done(): waiter.cancel()`
RECURSIVE CancelLoop(_, _, _, _)
CancelLoop(allowed, ws, f, rdy) ==
    IF Len(ws) <= allowed
    THEN [waiters |-> ws, fut |-> f, ready |-> rdy]
    ELSE LET w == ws[Len(ws)] IN
         IF ~Done(f, w)
         THEN CancelLoop(allowed, SubSeq(ws, 1, Len(ws) - 1),
                         [f EXCEPT ![w] = "cancelled"], Append(rdy, WakeUp(w)))
         ELSE CancelLoop(allowed, SubSeq(ws, 1, Len(ws) - 1), f, rdy)

\* how many waiters the growing branch tries to wake
ToWake(ws, new_available) == Min(Len(ws), new_available)

AllowedWaiting_Limit(lim, active) == lim

\* how many waiters a shrink leaves queued
AllowedWaiting(lim, active) == Max(0, lim - active)

SameLimit_Never(lim, cur) == FALSE

\* update_limit returns at once when the limit does not change
SameLimit(lim, cur) == lim = cur

Sign(x) == IF x < 0 THEN -1 ELSE IF x = 0 THEN 0 ELSE 1

NonPositive_Negative(lim) == lim < 0

\* `if new_limit <= 0: raise ValueError(...)`, before the lock is taken
NonPositive(lim) == lim <= 0

\* the locked section of update_limit(n), n > 0, when rdy is the loop's ready
\* queue: the fields it leaves
Resize(n, rdy) ==
    IF SameLimit(n, max_value)
    THEN [max_value |-> max_value, available |-> available, waiters |-> waiters,
          fut |-> fut, ready |-> rdy]
    ELSE LET old_limit == max_value
             new_available == n - active_count
             \* the branch on new_available, with the wake loop of a growth
             a == IF new_available < 0
                  THEN [waiters |-> waiters, fut |-> fut, available |-> 0, ready |-> rdy]
                  ELSE IF n > old_limit
                       THEN WakeLoop(ToWake(waiters, new_available), waiters, fut,
                                     new_available, rdy)
                       ELSE [waiters |-> waiters, fut |-> fut,
                             available |-> new_available, ready |-> rdy]
             \* the cancel loop of a shrink
             b == IF n < old_limit
                  THEN CancelLoop(AllowedWaiting(n, active_count), a.waiters, a.fut, a.ready)
                  ELSE [waiters |-> a.waiters, fut |-> a.fut, ready |-> a.ready]
         IN [max_value |-> n, available |-> a.available, waiters |-> b.waiters,
             fut |-> b.fut, ready |-> b.ready]

\* update_limit(new_limit) called by a task of the loop: the check of its
\* argument, then the whole locked section
UpdateLimit(n) ==
    /\ lastUpdate' = IF track = "resize"
                    THEN IF n > 0 /\ n # max_value
                         THEN <<n, Card({c \in Callers :
                                           /\ fut[c] = "pending"
                                           /\ Resize(n, ready).fut[c] = "cancelled"})>>
                         ELSE lastUpdate
                    ELSE IF track # "update" THEN lastUpdate
                    ELSE IF n <= 0 THEN <<0, 0>>
                    ELSE IF lastUpdate[1] = n THEN <<n, 2>> ELSE <<n, 1>>
    /\ lastError' = IF track = "error" /\ n <= 0
                    THEN <<n, IF NonPositive(n) THEN "ValueError" ELSE "returned">>
                    ELSE NoError
    /\ trip' = NoTrip
    /\ IF NonPositive(n)
       THEN UNCHANGED <<max_value, available, waiters, fut, ready, lastResize>>
       ELSE LET r == Resize(n, ready) IN
            /\ max_value' = r.max_value
            /\ available' = r.available
            /\ waiters' = r.waiters
            /\ fut' = r.fut
            /\ ready' = r.ready
            /\ lastResize' = IF track # "resize" \/ SameLimit(n, max_value)
                               THEN lastResize
                               ELSE <<IF n > max_value THEN "grow" ELSE "shrink",
                                      Sign(n - active_count)>>
    /\ UNCHANGED <<active_count, task, must_cancel, order, track>>
    /\ UNCHANGED ctlvars
    /\ UNCHANGED mvars

\* ---- the update thread -------------------------------------------------
\* what requests.get gives the thread: <<outcome, JSON type of "limit", value>>
Payloads ==
    {<<"error", "none", 0>>, <<"500", "int", 2>>, <<"not json", "none", 0>>,
     <<"200", "absent", 0>>, <<"200", "str", 2>>, <<"200", "float", 2>>,
     <<"200", "bool", 0>>, <<"200", "bool", 1>>}
    \cup {<<"200", "int", n>> : n \in LimitArgs}

IsInstanceInt_Exact(type) == type = "int"

\* isinstance(limit, int): bool is a subclass of int, True == 1
IsInstanceInt(type) == type \in {"int", "bool"}

\* _fetch_limit_from_url(): the limit, or None
FetchLimit(p) ==
    IF p[1] = "200" /\ IsInstanceInt(p[2]) /\ p[3] > 0 THEN p[3] ELSE None

\* run_coroutine_threadsafe(self.update_limit(n), self._loop): the handle
\* that makes the loop run update_limit(n) as a task
UpdateTask_Release(n) == [kind |-> "release", who |-> 0]

\* the handle of the coroutine run_coroutine_threadsafe submits to the loop
UpdateTask(n) == [kind |-> "update", who |-> n]

Submitted(h) == h.kind = "update"

StopSet_Never(e) == FALSE

\* self._stop_event.is_set()
StopSet(e) == e

\* `while not self._stop_event.is_set():`
ThreadWhile ==
    /\ thread = "while"
    /\ thread' = IF StopSet(stop_event) THEN "done" ELSE "for"
    /\ slice' = 0
    /\ UNCHANGED <<semvars, task, must_cancel, track, order, lastUpdate, lastResize,
                   trip, lastError>>
    /\ UNCHANGED <<stop_event, loop, new_limit, cfut, last_successful_value, payload, used>>
    /\ UNCHANGED mvars

\* `for _ in range(self._update_interval): if self._stop_event.is_set(): return`
ThreadFor ==
    /\ thread = "for"
    /\ thread' = IF slice = Interval THEN "fetch"
                 ELSE IF StopSet(stop_event) THEN "done" ELSE "sleep"
    /\ UNCHANGED <<semvars, task, must_cancel, track, order, lastUpdate, lastResize,
                   trip, lastError>>
    /\ UNCHANGED <<slice, stop_event, loop, new_limit, cfut, last_successful_value,
                   payload, used>>
    /\ UNCHANGED mvars

\* time.sleep(1) returns
ThreadSleep ==
    /\ thread = "sleep"
    /\ slice' = slice + 1
    /\ thread' = "for"
    /\ UNCHANGED <<semvars, task, must_cancel, track, order, lastUpdate, lastResize,
                   trip, lastError>>
    /\ UNCHANGED <<stop_event, loop, new_limit, cfut, last_successful_value, payload, used>>
    /\ UNCHANGED mvars

\* requests.get returns p (or raises): _fetch_limit_from_url, then
\* `if new_limit is not None and self._loop is not None` and
\* run_coroutine_threadsafe, up to the wait in future.result
ThreadFetch(p) ==
    /\ thread = "fetch"
    /\ payload' = IF track = "fetch" THEN p ELSE payload
    /\ IF FetchLimit(p) # None /\ loop
       THEN /\ Len(ready) < MaxReady
            /\ new_limit' = FetchLimit(p)
            /\ ready' = Append(ready, UpdateTask(FetchLimit(p)))
            /\ cfut' = "pending"
            /\ thread' = "wait"
       ELSE /\ thread' = "while"
            /\ UNCHANGED <<new_limit, ready, cfut>>
    /\ UNCHANGED <<max_value, active_count, available, waiters, fut, task, must_cancel,
                   track, order, lastUpdate, lastResize, trip, lastError>>
    /\ UNCHANGED <<slice, stop_event, loop, last_successful_value, used>>
    /\ UNCHANGED mvars

\* future.result(timeout=5.0) returns, or raises what update_limit raised
ThreadResult ==
    /\ thread = "wait"
    /\ cfut \in {"result", "exception"}
    /\ last_successful_value' = IF cfut = "result" /\ track = "fetch" THEN new_limit
                                ELSE last_successful_value
    /\ cfut' = "none"
    /\ new_limit' = None
    /\ thread' = "while"
    /\ UNCHANGED <<semvars, task, must_cancel, track, order, lastUpdate, lastResize,
                   trip, lastError>>
    /\ UNCHANGED <<slice, stop_event, loop, payload, used>>
    /\ UNCHANGED mvars

\* future.result(timeout=5.0) raises TimeoutError: the coroutine it submitted
\* has not finished, and nothing cancels it
ThreadTimeout ==
    /\ thread = "wait"
    /\ cfut = "pending"
    /\ cfut' = "none"
    /\ new_limit' = None
    /\ thread' = "while"
    /\ UNCHANGED <<semvars, task, must_cancel, track, order, lastUpdate, lastResize,
                   trip, lastError>>
    /\ UNCHANGED <<slice, stop_event, loop, last_successful_value, payload, used>>
    /\ UNCHANGED mvars

\* stop_updates(): self._stop_event.set()
StopUpdates ==
    /\ thread # "none"
    /\ ~stop_event
    /\ stop_event' = TRUE
    /\ UNCHANGED <<semvars, task, must_cancel, track, order, lastUpdate, lastResize,
                   trip, lastError>>
    /\ UNCHANGED <<thread, slice, loop, new_limit, cfut, last_successful_value, payload, used>>
    /\ UNCHANGED mvars

\* the handle at the head of the queue belongs to the submission the thread
\* is waiting for: the thread waits, and it submitted nothing later
Awaited == thread = "wait" /\ \A i \in 2..Len(ready) : ~Submitted(ready[i])

\* the loop runs the task of a submitted update_limit(n) to its end, which
\* completes the concurrent future of its submission
RunUpdate ==
    /\ ready # <<>>
    /\ Head(ready).kind = "update"
    /\ LET n == Head(ready).who IN
         IF NonPositive(n)
         THEN /\ ready' = Tail(ready)
              /\ cfut' = IF Awaited THEN "exception" ELSE cfut
              /\ UNCHANGED <<max_value, available, waiters, fut>>
         ELSE LET r == Resize(n, Tail(ready)) IN
              /\ max_value' = r.max_value
              /\ available' = r.available
              /\ waiters' = r.waiters
              /\ fut' = r.fut
              /\ ready' = r.ready
              /\ cfut' = IF Awaited THEN "result" ELSE cfut
    /\ UNCHANGED <<active_count, task, must_cancel, track, order, lastUpdate, lastResize,
                   trip, lastError>>
    /\ UNCHANGED <<thread, slice, stop_event, loop, new_limit, last_successful_value,
                   payload, used>>
    /\ UNCHANGED mvars

\* ---- MonitoredSemaphore --------------------------------------------------
\* __init__(value): one asyncio.Semaphore(value), no old ones
InitMonitored ==
    /\ m_max_value \in Limits
    /\ m_active_count = 0
    /\ m_semaphores = <<[value |-> m_max_value, waiters |-> <<>>]>>
    /\ m_task = [c \in Callers |-> "idle"]
    /\ m_ready = <<>>
    /\ m_lastError = NoError
    /\ m_pre = {}

\* asyncio.Semaphore.locked(): no waiter is ever cancelled here, and a waiter
\* stays in _waiters until its task resumes
Locked(sem) == sem.value = 0 \/ sem.waiters # <<>>

\* asyncio.Semaphore._wake_up_next(): the first waiter whose future is not
\* done (0: none)
RECURSIVE FirstWaiting(_, _)
FirstWaiting(ws, tasks) ==
    IF ws = <<>> THEN 0
    ELSE IF tasks[Head(ws)] = "waiting" THEN Head(ws)
    ELSE FirstWaiting(Tail(ws), tasks)

\* self._semaphore
Current == Len(m_semaphores)

Entered_Same(count) == count

\* `self._active_count += 1`
Entered(count) == count + 1

\* __aenter__ / acquire_monitored, up to the return of the entry or the
\* suspension in self._semaphore.acquire()
MEnter(c) ==
    /\ m_max_value > 0
    /\ m_task[c] = "idle"
    /\ LET sem == m_semaphores[Current] IN
         IF ~Locked(sem)
         THEN /\ m_semaphores' = [m_semaphores EXCEPT ![Current].value = @ - 1]
              /\ m_active_count' = Entered(m_active_count)
              /\ m_task' = [m_task EXCEPT ![c] = "holding"]
         ELSE /\ m_semaphores' = [m_semaphores EXCEPT ![Current].waiters = Append(@, c)]
              /\ m_task' = [m_task EXCEPT ![c] = "waiting"]
              /\ UNCHANGED m_active_count
    /\ m_lastError' = NoError
    /\ UNCHANGED <<m_max_value, m_ready, m_pre>>
    /\ UNCHANGED cvars

\* __aexit__ / the finally of acquire_monitored: the count, then release()
\* of what self._semaphore is now
MExit(c) ==
    /\ m_task[c] = "holding"
    /\ m_active_count' = m_active_count - 1
    /\ LET w == FirstWaiting(m_semaphores[Current].waiters, m_task) IN
         IF w = 0
         THEN /\ m_semaphores' = [m_semaphores EXCEPT ![Current].value = @ + 1]
              /\ m_task' = [m_task EXCEPT ![c] = "idle"]
              /\ UNCHANGED m_ready
         ELSE \* _value += 1, then _wake_up_next: _value -= 1, set_result
              /\ m_task' = [m_task EXCEPT ![c] = "idle", ![w] = "granted"]
              /\ m_ready' = Append(m_ready, w)
              /\ UNCHANGED m_semaphores
    /\ m_lastError' = NoError
    /\ m_pre' = m_pre \ {c}
    /\ UNCHANGED m_max_value
    /\ UNCHANGED cvars

\* the semaphore whose _waiters holds c
WaitsOn(c) ==
    CHOOSE k \in 1..Len(m_semaphores) :
        \E i \in 1..Len(m_semaphores[k].waiters) : m_semaphores[k].waiters[i] = c

\* the task of c resumes in asyncio.Semaphore.acquire() and finishes its entry
MResume(c) ==
    /\ m_ready # <<>>
    /\ Head(m_ready) = c
    /\ LET k == WaitsOn(c)
           ws == Remove(m_semaphores[k].waiters, c)
           w == IF m_semaphores[k].value > 0 THEN FirstWaiting(ws, m_task) ELSE 0
       IN IF w = 0
          THEN /\ m_semaphores' = [m_semaphores EXCEPT ![k].waiters = ws]
               /\ m_task' = [m_task EXCEPT ![c] = "holding"]
               /\ m_ready' = Tail(m_ready)
          ELSE /\ m_semaphores' = [m_semaphores EXCEPT ![k].waiters = ws,
                                                       ![k].value = @ - 1]
               /\ m_task' = [m_task EXCEPT ![c] = "holding", ![w] = "granted"]
               /\ m_ready' = Append(Tail(m_ready), w)
    /\ m_active_count' = Entered(m_active_count)
    /\ m_lastError' = NoError
    /\ UNCHANGED <<m_max_value, m_pre>>
    /\ UNCHANGED cvars

\* what the caller of update_limit sees when its body raised exc ("none":
\* nothing): `try: ... except Exception as e: print(...)` ends every call
\* with a normal return
Outcome(exc) == "returned"

\* update_limit(new_limit)
MUpdateLimit(n) ==
    /\ m_max_value > 0
    /\ m_lastError' = IF n <= 0
                      THEN <<n, Outcome(IF NonPositive(n) THEN "ValueError" ELSE "none")>>
                      ELSE NoError
    /\ IF NonPositive(n) \/ SameLimit(n, m_max_value)
       THEN UNCHANGED <<m_max_value, m_semaphores, m_pre>>
       ELSE /\ Len(m_semaphores) < MaxSemaphores
            /\ m_semaphores' = Append(m_semaphores, [value |-> n, waiters |-> <<>>])
            /\ m_max_value' = n
            /\ m_pre' = IF track = "resize"
                        THEN {c \in Callers : m_task[c] # "idle"}
                        ELSE m_pre
    /\ UNCHANGED <<m_active_count, m_task, m_ready>>
    /\ UNCHANGED cvars

\* ---- the system ---------------------------------------------------------
Next ==
    \/ \E c \in Callers : Acquire(c)
    \/ \E c \in Callers : Cancel(c)
    \/ \E c \in Callers : RunWake(c)
    \/ \E c \in Callers : Release(c)
    \/ RunRelease
    \/ \E n \in LimitArgs : UpdateLimit(n)

Spec == Init /\ [][Next]_vars

\* the same semaphore when update_limit is never called
NextFixed ==
    \/ \E c \in Callers : Acquire(c)
    \/ \E c \in Callers : Cancel(c)
    \/ \E c \in Callers : RunWake(c)
    \/ \E c \in Callers : Release(c)
    \/ RunRelease

InitFixed == Init /\ track = "order"

SpecFixed == InitFixed /\ [][NextFixed]_vars

\* the semaphore with the history of consecutive update_limit calls
InitUpdates == Init /\ track = "update"

SpecUpdates == InitUpdates /\ [][Next]_vars

\* the semaphore with the history of acquire/release round trips
InitTrips == Init /\ track = "trip"

SpecTrips == InitTrips /\ [][Next]_vars

\* the semaphore with the history of rejected update_limit calls
InitErrors == Init /\ track = "error"

SpecErrors == InitErrors /\ [][Next]_vars

\* the semaphore with the history of the last change of the limit
InitResizes == Init /\ track = "resize"

SpecResizes == InitResizes /\ [][Next]_vars

\* the semaphore alone, no history recorded
InitPlain == Init /\ track = "none"

SpecPlain == InitPlain /\ [][Next]_vars

\* the semaphore constructed with an update_url: its callers, the loop and
\* the update thread
NextController ==
    \/ \E c \in Callers : Acquire(c)
    \/ \E c \in Callers : Cancel(c)
    \/ \E c \in Callers : RunWake(c)
    \/ \E c \in Callers : Release(c)
    \/ RunRelease
    \/ \E n \in LimitArgs : UpdateLimit(n)
    \/ ThreadWhile
    \/ ThreadFor
    \/ ThreadSleep
    \/ \E p \in Payloads : ThreadFetch(p)
    \/ ThreadResult
    \/ ThreadTimeout
    \/ StopUpdates
    \/ RunUpdate

InitController ==
    /\ InitSemaphore
    /\ track = "none"
    /\ InitThread(TRUE)
    /\ NoMonitored

SpecController == InitController /\ [][NextController]_vars

\* the same, with the history of what the thread fetched
InitFetches ==
    /\ InitSemaphore
    /\ track = "fetch"
    /\ InitThread(TRUE)
    /\ NoMonitored

SpecFetches == InitFetches /\ [][NextController]_vars

\* a MonitoredSemaphore, its callers and the loop
NextMonitored ==
    \/ \E c \in Callers : MEnter(c)
    \/ \E c \in Callers : MExit(c)
    \/ \E c \in Callers : MResume(c)
    \/ \E n \in LimitArgs : MUpdateLimit(n)

\* the fields of the other class stay as its constructor leaves them
InitMonitoredOnly ==
    /\ InitMonitored
    /\ InitSemaphore
    /\ max_value = 1
    /\ track = "none"
    /\ InitThread(FALSE)

SpecMonitored == InitMonitoredOnly /\ [][NextMonitored]_vars

\* The loop resumes every task a semaphore has woken, and every task that is
\* inside eventually exits.
MonitoredFairness ==
    /\ \A c \in Callers : WF_vars(MResume(c))
    /\ \A c \in Callers : WF_vars(MExit(c))

FairMonitored == SpecMonitored /\ MonitoredFairness

\* the same, with the history of who was inside at the last resize
InitHolders ==
    /\ InitMonitored
    /\ InitSemaphore
    /\ max_value = 1
    /\ track = "resize"
    /\ InitThread(FALSE)

SpecHolders == InitHolders /\ [][NextMonitored]_vars

\* The thread is scheduled: each of its blocking calls returns (time.sleep
\* after a second, requests.get within its timeout of 10 s, future.result
\* within its timeout of 5 s).
ThreadFairness ==
    /\ WF_vars(ThreadWhile)
    /\ WF_vars(ThreadFor)
    /\ WF_vars(ThreadSleep)
    /\ WF_vars(\E p \in Payloads : ThreadFetch(p))
    /\ WF_vars(ThreadResult \/ ThreadTimeout)

\* the update thread beside callers that only acquire and release: no
\* cancellation, and no update_limit but the thread's
NextShutdown ==
    \/ \E c \in Callers : Acquire(c)
    \/ \E c \in Callers : RunWake(c)
    \/ \E c \in Callers : Release(c)
    \/ RunRelease
    \/ ThreadWhile
    \/ ThreadFor
    \/ ThreadSleep
    \/ \E p \in Payloads : ThreadFetch(p)
    \/ ThreadResult
    \/ ThreadTimeout
    \/ StopUpdates
    \/ RunUpdate

SpecShutdown == InitController /\ [][NextShutdown]_vars /\ ThreadFairness

\* the semaphore with an update_url whose callers are never cancelled and
\* whose updates are never stopped
NextAdmission ==
    \/ \E c \in Callers : Acquire(c)
    \/ \E c \in Callers : RunWake(c)
    \/ \E c \in Callers : Release(c)
    \/ RunRelease
    \/ \E n \in LimitArgs : UpdateLimit(n)
    \/ ThreadWhile
    \/ ThreadFor
    \/ ThreadSleep
    \/ \E p \in Payloads : ThreadFetch(p)
    \/ ThreadResult
    \/ ThreadTimeout
    \/ RunUpdate

SpecAdmission == InitController /\ [][NextAdmission]_vars

\* The loop runs every handle it has scheduled, and every caller that holds
\* a permit eventually releases it.
Fairness ==
    /\ WF_vars(RunRelease)
    /\ \A c \in Callers : WF_vars(RunWake(c))
    /\ \A c \in Callers : WF_vars(Release(c))

FairSpec == Spec /\ Fairness

\* ======================================================================
\* Properties
\* ======================================================================

\* callers whose waiter was signalled granted and whose task has not resumed
GrantedNotResumed == {c \in Callers : task[c] = "waiting" /\ fut[c] = "result"}

\* callers that were granted a permit and have not released it
Granted == {c \in Callers : task[c] = "holding"} \cup GrantedNotResumed

\* queued waiters whose future is still pending
LiveWaiters == SelectSeq(waiters, LAMBDA w : fut[w] = "pending")

\* nothing scheduled on the loop: no release to run, no waiter to resume
Quiescent == ready = <<>>

Pos(s, x) == CHOOSE i \in 1..Len(s) : s[i] = x
InSeq(s, x) == \E i \in 1..Len(s) : s[i] = x

\* c1 was enqueued before c2 and neither acquire has ended
Before(c1, c2) ==
    /\ InSeq(order, c1)
    /\ InSeq(order, c2)
    /\ Pos(order, c1) < Pos(order, c2)

\* ---- C1 ----
\* C1: at a fixed limit (update_limit never called) the callers that were
\* granted a permit and have not released it (holders, and waiters granted but
\* not yet resumed) never number more than the limit; nor does the count the
\* semaphore keeps of them.
C1_GrantedWithinLimit ==
    /\ Card(Granted) <= max_value
    /\ active_count + Card(GrantedNotResumed) <= max_value

\* every permit is out, one of them with a waiter that has not resumed yet,
\* while another waiter is queued
C1_Witness ==
    /\ Card(Granted) = max_value
    /\ GrantedNotResumed # {}
    /\ LiveWaiters # <<>>

\* ---- C2 ----
\* C2: active exceeds the limit only in a window opened by a shrink: once
\* the permits out (active, and waiters granted but not yet resumed) are at
\* most the limit, a step that does not shrink the limit never leaves active
\* above the limit.
C2_OnlyShrinkOvercommits ==
    [][(active_count + Card(GrantedNotResumed) <= max_value /\ ~(max_value' < max_value))
          => active_count' <= max_value']_vars

\* ---- C3 ----
\* C3: at a fixed limit, once all scheduled steps have run no permit is
\* lost: each permit is either held (counted in active) or available,
\* whatever cancellations raced with grants.
C3_NoPermitLost == Quiescent => active_count + available = max_value

\* ---- C4 ----
\* C4: every suspended acquire is eventually resumed, granted or cancelled.
C4_WaiterResumed ==
    \A c \in Callers : (task[c] = "waiting") ~> (task[c] # "waiting")

\* ---- C5 ----
\* C5: in every quiescent state available = limit - active when
\* active <= limit, and available = 0 when active > limit.
C5_CapacityInvariant ==
    Quiescent =>
        IF active_count <= max_value
        THEN available = max_value - active_count
        ELSE available = 0

\* ---- C6 ----
\* C6: after an update_limit to a limit below active, no acquire is granted
\* (fast path or from the queue) while active is still above the limit: no
\* step that starts and ends with active above the limit grants a permit.
C6_NoAdmissionWhileOver ==
    [][(/\ lastResize[2] = -1
        /\ lastResize' = lastResize
        /\ active_count > max_value
        /\ active_count' > max_value)
          => /\ \A c \in Callers : task[c] = "idle" => task'[c] # "holding"
             /\ \A c \in Callers : fut[c] = "pending" => fut'[c] # "result"]_vars

\* ---- C7 ----
\* C7: a shrink to a limit at or below active leaves active unchanged, sets
\* available to 0 and cancels every queued waiter; a later release step that
\* leaves active at or above the limit decrements active by one, leaves
\* available at 0 and wakes no waiter.
C7_ShrinkThenRelease ==
    [][/\ (max_value' < max_value /\ active_count >= max_value')
          => /\ active_count' = active_count
             /\ available' = 0
             /\ waiters' = <<>>
             /\ \A c \in Callers : fut[c] = "pending" => fut'[c] = "cancelled"
       /\ (/\ lastResize[1] = "shrink"
           /\ lastResize[2] <= 0
           /\ active_count' = active_count - 1
           /\ active_count' >= max_value)
          => /\ available' = 0
             /\ \A c \in Callers : fut[c] = "pending" => fut'[c] = "pending"]_vars

\* ---- C8 ----
\* C8: a growing update_limit with delta = newLimit - active >= 0 and k live
\* waiters queued wakes exactly the first min(k, delta) of them, leaves the
\* others queued, and ends with available = delta - min(k, delta).
C8_GrowWakesHead ==
    [][(max_value' > max_value /\ max_value' - active_count >= 0)
          => LET delta == max_value' - active_count
                 k == Len(LiveWaiters)
                 m == Min(k, delta)
             IN /\ \A i \in 1..k :
                      fut'[LiveWaiters[i]] = (IF i <= m THEN "result" ELSE "pending")
                /\ available' = delta - m]_vars

\* ---- C9 ----
\* C9: at a constant limit waiters are granted, and resume holding their
\* permit, in the order they queued: when a waiter is granted no waiter
\* enqueued before it is still pending, and when a waiter resumes with its
\* permit every waiter enqueued before it that has not resumed is cancelled.
C9_FIFO ==
    [][\A c2 \in Callers :
          /\ (fut[c2] = "pending" /\ fut'[c2] = "result")
                => \A c1 \in Callers : Before(c1, c2) => fut[c1] # "pending"
          /\ (task[c2] = "waiting" /\ task'[c2] = "holding")
                => \A c1 \in Callers :
                      Before(c1, c2) => (fut[c1] = "cancelled" \/ must_cancel[c1])]_vars

\* two waiters, granted in their queue order, both about to resume
C9_Witness ==
    \E c1, c2 \in Callers :
        /\ Before(c1, c2)
        /\ fut[c1] = "result" /\ fut[c2] = "result"
        /\ ~must_cancel[c1] /\ ~must_cancel[c2]
        /\ Len(ready) >= 2
        /\ ready[1] = WakeUp(c1) /\ ready[2] = WakeUp(c2)

\* ---- C10 ----
\* C10: update_limit(x) leaves the limit at x, and an update_limit(x) that
\* follows an update_limit(x) at once, or finds the limit already at x,
\* changes neither limit, active, available, the queue nor any waiter.
C10_UpdateIdempotent ==
    [][\A x \in Limits :
          /\ lastUpdate'[1] = x => max_value' = x
          /\ (lastUpdate'[1] = x /\ (lastUpdate[1] = x \/ max_value = x))
                => UNCHANGED semvars]_vars

\* update_limit(x) was called twice in a row in a state where redoing the
\* arithmetic of the first call would give another result
C10_Witness ==
    /\ lastUpdate[2] = 2
    /\ GrantedNotResumed # {}
    /\ available # Max(0, max_value - active_count)

\* ---- C11 ----
\* C11: when an acquire returns at once, is released next and the release's
\* scheduled step runs next, with nothing else in between, active,
\* available, the limit and the waiter queue are what they were before the
\* acquire.
C11_RoundTrip ==
    trip[1] = 3 => <<active_count, available, max_value, waiters>> = trip[3]

\* ---- C12 ----
\* C12: update_limit(new_limit) with new_limit <= 0 raises ValueError to its
\* caller and changes neither the limit, active, available, the waiter queue
\* nor any waiter's future, and schedules no wake-up.
C12_InvalidLimitRejected ==
    [][lastError' # NoError
          => /\ lastError'[1] <= 0
             /\ lastError'[2] = "ValueError"
             /\ UNCHANGED semvars]_vars

\* update_limit(0) was just rejected while a live waiter is queued
C12_Witness ==
    /\ lastError = <<0, "ValueError">>
    /\ LiveWaiters # <<>>
    /\ active_count > 0

\* ---- C17 ----
\* C17: an acquire that is cancelled while its waiter is still pending (by
\* its caller, or by a shrink) changes only its own entry: the step that
\* cancels it on behalf of its caller, and the step in which its task
\* resumes and raises, leave the limit, active and available unchanged, keep
\* the other waiters queued in the same order, and neither grant nor cancel
\* any other waiter.
C17_CancelledAcquireFrame ==
    [][\A c \in Callers :
          /\ (fut[c] = "pending" /\ fut'[c] = "cancelled" /\ max_value' = max_value)
                => /\ UNCHANGED <<active_count, available, waiters>>
                   /\ \A d \in Callers \ {c} : fut'[d] = fut[d] /\ task'[d] = task[d]
          /\ (fut[c] = "cancelled" /\ task[c] = "waiting" /\ task'[c] = "idle")
                => /\ UNCHANGED <<max_value, active_count, available>>
                   /\ waiters' = SelectSeq(waiters, LAMBDA w : w # c)
                   /\ \A d \in Callers \ {c} : fut'[d] = fut[d] /\ task'[d] = task[d]]_vars

\* an acquire queued between two pending waiters has been cancelled and its
\* task is the next to resume
C17_Witness ==
    \E c, d, e \in Callers :
        /\ waiters = <<d, c, e>>
        /\ fut[c] = "cancelled" /\ task[c] = "waiting"
        /\ fut[d] = "pending" /\ fut[e] = "pending"
        /\ ready = <<WakeUp(c)>>

\* ---- C18 ----
\* C18: every waiter in the queue belongs to an acquire that is still
\* suspended (an acquire that returned or raised has no entry left), no
\* waiter is queued twice, a waiter signalled granted is out of the queue,
\* and a cancelled waiter is never signalled granted.
C18_NoDanglingWaiter ==
    /\ [](/\ \A i \in 1..Len(waiters) : task[waiters[i]] = "waiting"
          /\ \A i, j \in 1..Len(waiters) : waiters[i] = waiters[j] => i = j
          /\ \A c \in Callers : fut[c] = "result" => ~InSeq(waiters, c))
    /\ [][\A c \in Callers : fut[c] = "cancelled" => fut'[c] # "result"]_vars

\* a release has just run over a queue headed by a cancelled waiter: it
\* skipped that waiter, granted the next, and the cancelled waiter's task has
\* not resumed yet
C18_Witness ==
    \E c, d \in Callers :
        /\ fut[c] = "cancelled" /\ task[c] = "waiting"
        /\ fut[d] = "result" /\ task[d] = "waiting"
        /\ ~InSeq(waiters, c)
        /\ Len(ready) = 2
        /\ ready[1] = WakeUp(c) /\ ready[2] = WakeUp(d)

\* a fetch that gives no new limit: anything but status 200 with a JSON
\* object whose "limit" is a positive integer
FetchFailed(p) == ~(p[1] = "200" /\ p[2] = "int" /\ p[3] > 0)

\* the thread's fetch returns in this step
FetchReturns == thread = "fetch" /\ thread' # "fetch"

IsPrefix(s, t) == Len(s) <= Len(t) /\ SubSeq(t, 1, Len(s)) = s

\* the loop runs, in this step, the submitted update_limit at the head of
\* its queue
UpdateRuns == ready # <<>> /\ Head(ready).kind = "update" /\ ~IsPrefix(ready, ready')

\* ---- C13 ----
\* C13: MonitoredSemaphore.update_limit(new_limit) with new_limit <= 0
\* changes nothing and raises ValueError to its caller: the call does not
\* return as a successful one does.
C13_MonitoredInvalidLimit ==
    [][m_lastError' # NoError
          => /\ m_lastError'[2] = "ValueError"
             /\ UNCHANGED <<m_max_value, m_active_count, m_semaphores, m_task, m_ready>>]_vars

\* ---- C14 ----
\* C14: a tick of the update thread whose fetch fails (transport error,
\* status other than 200, body that is not JSON, "limit" missing, not an
\* integer or not positive) changes neither the limit, active, available,
\* the waiter queue nor the last successful value, and submits no
\* update_limit.
C14_FetchFailureFrame ==
    [][(FetchReturns /\ FetchFailed(payload'))
          => /\ UNCHANGED <<semvars, last_successful_value>>
             /\ thread' = "while"]_vars

\* ---- C15 ----
\* C15: a valid fetched limit v is not applied, and the thread goes on to
\* its next interval, while no caller has called acquire; once a caller has
\* (through any path, a direct acquire() included) the tick submits
\* update_limit(v), and the submission the thread waits for ends with the
\* limit at v.
C15_DeferredApplication ==
    /\ [][(FetchReturns /\ ~FetchFailed(payload'))
             => IF used
                THEN /\ thread' = "wait"
                     /\ ready' = Append(ready, UpdateTask(payload'[3]))
                ELSE /\ thread' = "while"
                     /\ UNCHANGED semvars]_vars
    /\ [][(cfut = "pending" /\ cfut' = "result") => max_value' = new_limit]_vars

\* ---- C16 ----
\* C16: when the wait for a submitted update_limit times out the thread goes
\* on to its next interval and no caller's task is affected; and the tick
\* that timed out leaves the limit as it was: the update_limit it submitted
\* does not change the limit afterwards.
C16_BridgeFailureNotFatal ==
    /\ [][(thread = "wait" /\ cfut = "pending" /\ thread' # "wait")
             => /\ thread' = "while"
                /\ UNCHANGED <<semvars, task, must_cancel>>]_vars
    /\ [][(UpdateRuns /\ ~Awaited) => max_value' = max_value]_vars

\* ---- C19 ----
\* C19: with callers, manual update_limit calls (valid or not) and the ticks
\* of the update thread, whatever it fetches, the limit stays positive and
\* active and available never go negative.
C19_Range ==
    /\ max_value > 0
    /\ active_count >= 0
    /\ available >= 0

\* an update_limit submitted by the thread has just shrunk the limit to 1,
\* where active already stands, the thread still waiting for it
C19_Witness ==
    /\ thread = "wait"
    /\ cfut = "result"
    /\ new_limit = 1
    /\ max_value = 1
    /\ active_count = 1
    /\ available = 0

\* ---- C20 ----
\* C20: once the stop event is set the update thread terminates, and it
\* starts neither another one-second slice of sleep nor another interval:
\* the event is checked before each slice.
C20_PromptShutdown ==
    /\ stop_event ~> (thread = "done")
    /\ [][stop_event => /\ (thread' = "sleep" => thread = "sleep")
                        /\ (thread' = "for" => thread \in {"for", "sleep"})]_vars

\* the thread was stopped after the first slice of an interval and has
\* returned without sleeping the rest of it
C20_Witness ==
    /\ stop_event
    /\ thread = "done"
    /\ slice = 1
    /\ Interval > 1

\* ---- C21 ----
\* C21: in every state of either class the available_permits property is
\* max(0, limit - active), hence never negative.  (The property is a read: it
\* has no step.)
C21_StatusProjection ==
    /\ available_permits = Max(0, max_value - active_count)
    /\ m_available_permits = Max(0, m_max_value - m_active_count)

\* ---- C23 ----
\* C23: between the moment a waiter is signalled granted and the moment its
\* task increments active, no release step and no update_limit that changes
\* the limit runs: update_limit never computes limit - active from a count
\* that omits a granted waiter.
C23_GrantAtomic ==
    [][GrantedNotResumed # {}
          => /\ max_value' = max_value
             /\ active_count' >= active_count]_vars

\* ---- C24 ----
\* C24: an update_limit to a lower limit leaves in the queue exactly the
\* first min(len(queue), allowedWaiting) waiters of the queue it found, in
\* their order, allowedWaiting being max(0, newLimit - active); each waiter
\* it removed ends cancelled; the queue it leaves is no longer than
\* allowedWaiting.
C24_ShrinkKeepsHead ==
    [][max_value' < max_value
          => LET allowed == Max(0, max_value' - active_count)
                 m == Min(Len(waiters), allowed)
             IN /\ waiters' = SubSeq(waiters, 1, m)
                /\ \A i \in (m + 1)..Len(waiters) : fut'[waiters[i]] = "cancelled"
                /\ Len(waiters') <= allowed]_vars

\* the last operation was an update_limit that lowered the limit to a value
\* above active, left one pending waiter queued and cancelled a later one,
\* whose wake-up is the last handle scheduled
C24_Witness ==
    \E d, e \in Callers :
        /\ lastResize = <<"shrink", 1>>
        /\ lastUpdate = <<max_value, 1>>
        /\ waiters = <<d>>
        /\ fut[d] = "pending"
        /\ fut[e] = "cancelled" /\ task[e] = "waiting" /\ ~must_cancel[e]
        /\ ready # <<>> /\ ready[Len(ready)] = WakeUp(e)

\* ---- C25 ----
\* C25: release() only schedules its step (its caller goes on at once); the
\* step decrements active by exactly one and then either grants the oldest
\* waiter that is still pending, leaving available unchanged, or, when no
\* waiter is pending, increments available by one and leaves the queue
\* empty, never both; and when a granted waiter's acquire ends, active has
\* been incremented exactly once for it.
C25_ReleaseStep ==
    /\ [][\A c \in Callers :
             (task[c] = "holding" /\ task'[c] = "idle")
                => /\ ready' = Append(ready, [kind |-> "release", who |-> 0])
                   /\ UNCHANGED <<max_value, active_count, available, waiters, fut>>]_vars
    /\ [][(ready # <<>> /\ Head(ready).kind = "release" /\ ready' # ready
             /\ Len(ready') <= Len(ready))
             => /\ active_count' = active_count - 1
                /\ IF LiveWaiters # <<>>
                   THEN /\ fut'[Head(LiveWaiters)] = "result"
                        /\ \A c \in Callers \ {Head(LiveWaiters)} : fut'[c] = fut[c]
                        /\ available' = available
                   ELSE /\ available' = available + 1
                        /\ waiters' = <<>>
                        /\ fut' = fut]_vars
    /\ [][\A c \in Callers :
             (fut[c] = "result" /\ task[c] = "waiting" /\ task'[c] # "waiting")
                => active_count' = active_count + 1]_vars

\* ---- C30 ----
\* C30: whenever a permit is available, active, the waiters granted but not
\* yet resumed and available together do not exceed the limit.
C30_GrantableWithinCapacity ==
    available > 0 => active_count + Card(GrantedNotResumed) + available <= max_value

\* ---- C29 ----
\* C29: while the update thread sleeps or is inside a fetch, acquire, release,
\* the release step and update_limit called by a task remain enabled; and no
\* step of the thread writes limit, active, available, the waiter queue or a
\* waiter: the most it does to the loop is to schedule the update_limit of
\* the limit it fetched.
C29_FetchNeverBlocks ==
    /\ [](thread \in {"sleep", "fetch"}
            => /\ \A c \in Participants : task[c] = "idle" => ENABLED Acquire(c)
               /\ \A c \in Participants :
                      (task[c] = "holding" /\ Len(ready) < MaxReady) => ENABLED Release(c)
               /\ (ready # <<>> /\ Head(ready).kind = "release") => ENABLED RunRelease
               /\ \A n \in LimitArgs : ENABLED UpdateLimit(n))
    /\ [][thread' # thread
            => /\ UNCHANGED <<max_value, active_count, available, waiters, fut, task>>
               /\ \/ ready' = ready
                  \/ ready' = Append(ready, [kind |-> "update", who |-> new_limit'])]_vars

\* the thread is inside a fetch while a release step has granted the queued
\* waiter, which has not resumed yet
C29_Witness ==
    /\ thread = "fetch"
    /\ \E c \in Participants : fut[c] = "result" /\ task[c] = "waiting"
    /\ active_count = 0

\* ---- C28 ----
\* C28: the active_count of a MonitoredSemaphore is the number of tasks that
\* have completed their entry and not begun their exit, whichever semaphore
\* instance each acquired from.
C28_ActiveCountsAllInstances ==
    m_active_count = Card({c \in Callers : m_task[c] = "holding"})

\* two permits were taken from the first instance and none returned to it,
\* the one permit of the instance update_limit(1) created is taken too:
\* three tasks are inside
C28_Witness ==
    /\ Len(m_semaphores) = 2
    /\ m_max_value = 1
    /\ m_semaphores[1].value = 0
    /\ m_semaphores[2].value = 0
    /\ m_active_count = 3

\* ---- C22 ----
\* C22: after an update_limit(n) of a MonitoredSemaphore that changed the
\* limit, once every caller that was inside (or entering) at that update has
\* exited, active_count is at most n.
C22_LimitRespectedAfterResize ==
    (Len(m_semaphores) > 1 /\ m_pre = {}) => m_active_count <= m_max_value

\* ---- C26 ----
\* C26: a permit taken from the instance that was current before an
\* update_limit goes back to that instance: the exits of the earlier holders
\* never raise the value of the current instance above the current limit.
C26_ReleaseToOwnInstance ==
    m_max_value > 0 => m_semaphores[Current].value <= m_max_value

\* ---- C27 ----
\* C27: a task suspended in the acquire of an instance that an update_limit
\* has since replaced is eventually admitted, when the loop resumes every
\* woken task and every holder eventually exits.
C27_OldWaitersAdmitted ==
    \A c \in Callers :
        (m_task[c] = "waiting" /\ WaitsOn(c) < Current) ~> (m_task[c] = "holding")

\* ---- C31 ----
\* C31: no state has a permit available while a waiter that is neither
\* granted nor cancelled is still queued, cancelled waiters that have not yet
\* left the queue notwithstanding.
C31_NoStrandedWaiter ==
    available > 0 => LiveWaiters = <<>>

\* ---- C32 ----
\* C32: once the stop event is set the update thread starts no fetch and
\* submits no update_limit, and no update_limit it submitted changes the
\* limit.
C32_StopOrdering ==
    [][stop_event
          => /\ (thread' = "fetch" => thread = "fetch")
             /\ (thread' = "wait" => thread = "wait")
             /\ (UpdateRuns => max_value' = max_value)]_vars

====
